---- MODULE Spec2Model ----
(***************************************************************************)
(* Model of pvoutput/pvoutput.py: the request pipeline of the PVOutput.org  *)
(* client.  One top-level call of pv_output_api_query is followed through   *)
(* its exchanges with the server:                                           *)
(*                                                                          *)
(*   pv_output_api_query -> _get_api_reponse -> session.get (urllib3 Retry) *)
(*                       -> _process_api_response -> return | raise         *)
(*                       -> time.sleep -> pv_output_api_query(.., False)    *)
(*                                                                          *)
(* Times are whole seconds since the Unix epoch (UTC).  Header values and   *)
(* bodies are sequences of characters / bytes, parsed as the code parses    *)
(* them.  The server and the network are the environment: every attempt     *)
(* may fail to connect, fail while reading, or deliver any response.        *)
(***************************************************************************)
EXTENDS Integers, Sequences, FiniteSets, TLC

VARIABLES
    pc,         \* control point of the call: "call", "send", "process",
                \* "sleep", "returned" or "raised"; of its callers:
                \* "check_date", "decoded", "check_status", "checked"
    stack,      \* active pv_output_api_query frames, outermost first
    now,        \* the clock read by datetime.utcnow(), in seconds
    retries,    \* counters of the urllib3 Retry object of the current session
    failures,   \* failures seen by the current session.get, by kind
    attempts,   \* HTTP attempts made by the current session.get
    response,   \* the local `response` of the innermost frame
    outcome,    \* what _process_api_response did with `response`
    result,     \* what the top-level call returned or raised
    sent,       \* history: the request of every exchange, in order
    sleeps,     \* history: the duration of every completed time.sleep
    outcomes,   \* history: the outcome of every classification, in order
    seen,       \* history: <<status>> of the response session.get received
                \* last in the current send, <<0>> before the first; kept
                \* only where Init starts it, <<>> where it is not kept
    running,    \* the call (thread) whose locals the variables above hold
    parked,     \* the locals of the calls that are not running
    date,       \* the `date` argument of get_pv_system_status
    localtime,  \* the clock read by datetime.now()
    table,      \* the DataFrame read from the text the query returned
    checked     \* what check_pv_system_status did with `table`

\* the locals of one call of pv_output_api_query and of what it calls
locals == <<pc, stack, retries, failures, attempts, response, outcome,
            result, sent, sleeps, outcomes, seen>>
\* what the callers of pv_output_api_query hold
locals_but_pc == <<stack, retries, failures, attempts, response, outcome,
                   result, sent, sleeps, outcomes, seen>>
locals_but_pc_result == <<stack, retries, failures, attempts, response,
                          outcome, sent, sleeps, outcomes, seen>>
caller_vars == <<date, localtime, table, checked>>
thread_vars == <<running, parked>>

vars == <<pc, stack, now, retries, failures, attempts, response, outcome,
          result, sent, sleeps, outcomes, seen, running, parked,
          date, localtime, table, checked>>

(***************************************************************************)
(* Bounds of the environment.                                               *)
(***************************************************************************)
\* quota-remaining header values run over -MaxQuota..MaxQuota
MaxQuota == 1
\* quota-reset header values run over (Now0 - 180) - MaxSkew .. + MaxSkew
MaxSkew == 1
\* the clock at the time of the top-level call
Now0 == 1000

(***************************************************************************)
(* Program constants.                                                       *)
(***************************************************************************)
\* timedelta(minutes=3), in seconds
SafetyMargin == 180
\* max_retry_counts
MaxConnect == 720
MaxRead == 5
MaxStatus == 5
\* Retry(status_forcelist=[500, 502, 503, 504])
status_forcelist == {500, 502, 503, 504}
\* urllib3 Retry.RETRY_AFTER_STATUS_CODES, honoured because
\* respect_retry_after_header keeps its default
RETRY_AFTER_STATUS_CODES == {413, 429, 503}

Max(S) == CHOOSE x \in S : \A y \in S : y <= x
Min(S) == CHOOSE x \in S : \A y \in S : x <= y

\* Retry(total=max(max_retry_counts.values()), ...)
MaxTotal == Max({MaxConnect, MaxRead, MaxStatus})

(***************************************************************************)
(* Text: header values are sequences of one-character strings.              *)
(***************************************************************************)
Digit == <<"0", "1", "2", "3", "4", "5", "6", "7", "8", "9">>
DigitChars == {Digit[i] : i \in 1..10}
DigitVal(c) == (CHOOSE i \in 1..10 : Digit[i] = c) - 1

\* how the server writes an integer into a header
RECURSIVE NatToText(_)
NatToText(n) ==
    IF n < 10 THEN <<Digit[n + 1]>>
    ELSE Append(NatToText(n \div 10), Digit[(n % 10) + 1])
IntToText(n) == IF n < 0 THEN <<"-">> \o NatToText(-n) ELSE NatToText(n)

\* Python's int(str): an optional sign followed by at least one digit
Unsigned(s) == IF Len(s) > 0 /\ s[1] \in {"+", "-"} THEN Tail(s) ELSE s
IsIntLiteral(s) ==
    /\ Len(Unsigned(s)) > 0
    /\ \A i \in 1..Len(Unsigned(s)) : Unsigned(s)[i] \in DigitChars
RECURSIVE DigitsValue(_)
DigitsValue(s) ==
    IF s = <<>> THEN 0
    ELSE 10 * DigitsValue(SubSeq(s, 1, Len(s) - 1)) + DigitVal(s[Len(s)])
int(s) ==
    IF Len(s) > 0 /\ s[1] = "-" THEN 0 - DigitsValue(Unsigned(s))
    ELSE DigitsValue(Unsigned(s))

(***************************************************************************)
(* Bodies: sequences of bytes.  bytes.decode('latin1') maps every byte b to *)
(* the character with code point b and never fails; str.strip() removes     *)
(* leading and trailing whitespace characters.                              *)
(***************************************************************************)
Whitespace == {9, 10, 11, 12, 13, 28, 29, 30, 31, 32, 133, 160}
decode_latin1(bytes) == [i \in 1..Len(bytes) |-> bytes[i]]
RECURSIVE lstrip(_)
lstrip(s) ==
    IF s # <<>> /\ s[1] \in Whitespace THEN lstrip(Tail(s)) ELSE s
RECURSIVE rstrip(_)
rstrip(s) ==
    IF s # <<>> /\ s[Len(s)] \in Whitespace
    THEN rstrip(SubSeq(s, 1, Len(s) - 1)) ELSE s
strip(s) == rstrip(lstrip(s))

(***************************************************************************)
(* Requests and responses.                                                  *)
(***************************************************************************)
\* the request of get_pv_system_status: service and api_params (keys only)
QueryRequest ==
    [service |-> "getstatus", api_params |-> <<"d", "h", "limit", "ext", "sid1">>]

Statuses == {102, 200, 304, 400, 403, 404, 429, 500, 502, 503, 504}

\* the values the server may put in the quota headers, well-formed or not
RemainingTexts == {IntToText(n) : n \in (0 - MaxQuota)..MaxQuota} \cup {<<"x">>}
ResetTimes == {(Now0 - SafetyMargin) + d : d \in (0 - MaxSkew)..MaxSkew}
ResetTexts == {IntToText(t) : t \in ResetTimes} \cup {<<"x">>}

\* a header mapping: each header is present with one of its texts, or absent
HeaderMaps(name, texts) == {<<>>} \cup {[n \in {name} |-> t] : t \in texts}
RetryAfterHeaders == HeaderMaps("Retry-After", {<<"1">>})
QuotaHeaders ==
    {r @@ t : r \in HeaderMaps("X-Rate-Limit-Remaining", RemainingTexts),
              t \in HeaderMaps("X-Rate-Limit-Reset", ResetTexts)}

\* bodies: empty, plain, and padded with whitespace (space, NBSP)
Bodies == {<<>>, <<65>>, <<32, 65, 160>>}

\* the local `response` before session.get has returned
NoResponse == [status_code |-> 0, headers |-> <<>>, content |-> <<>>]

(***************************************************************************)
(* Transport: urllib3's Retry as configured by _get_session_with_retry.     *)
(***************************************************************************)
NoRetries == [total |-> 0, connect |-> 0, read |-> 0, status |-> 0]
NoFailures == [connect |-> 0, read |-> 0, status |-> 0]

\* mutant: one session for the whole query, so the second exchange finds
\* the counters as the first left them
_get_session_shared == IF sent = <<>> THEN
    [total |-> MaxTotal, connect |-> MaxConnect, read |-> MaxRead,
     status |-> MaxStatus] ELSE retries

\* the Retry object mounted on a new session
_get_session_with_retry ==
    [total |-> MaxTotal, connect |-> MaxConnect, read |-> MaxRead,
     status |-> MaxStatus]

\* Retry.is_retry for a GET: a forcelisted status, or a Retry-After header
\* on 413/429/503 while total is non-zero
is_retry(r, status_code, has_retry_after) ==
    \/ status_code \in status_forcelist
    \/ r.total # 0 /\ has_retry_after /\ status_code \in RETRY_AFTER_STATUS_CODES

\* mutant: only total is counted down, the per-kind ceilings are lost
increment_total_only(r, kind) ==
    [r EXCEPT !.total = @ - 1]

\* Retry.increment: total and the counter of the failure's kind go down by one
increment(r, kind) ==
    [r EXCEPT !.total = @ - 1, ![kind] = @ - 1]

\* mutant: exhausted as soon as a counter reaches zero, one retry early
is_exhausted_at_zero(r) ==
    Min({r.total, r.connect, r.read, r.status}) <= 0

\* Retry.is_exhausted: the smallest non-zero counter is negative
is_exhausted(r) ==
    LET retry_counts == {c \in {r.total, r.connect, r.read, r.status} : c # 0}
    IN  retry_counts # {} /\ Min(retry_counts) < 0

\* requests' name for the failure once the retries are exhausted
NetworkErrors == {"ConnectionError", "RetryError"}

(***************************************************************************)
(* _process_api_response, with the exceptions it lets escape as outcomes.   *)
(***************************************************************************)
Outcome(kind, text, secs) == [kind |-> kind, text |-> text, secs_to_wait |-> secs]
NoOutcome == Outcome("none", <<>>, 0)

\* RateLimitExceeded.__init__ / _set_params, at clock reading utc_now
RateLimitExceeded(resp, utc_now) ==
    IF "X-Rate-Limit-Reset" \notin DOMAIN resp.headers
    THEN Outcome("KeyError", <<>>, 0)
    ELSE IF ~IsIntLiteral(resp.headers["X-Rate-Limit-Reset"])
    THEN Outcome("ValueError", <<>>, 0)
    ELSE LET rate_limit_reset_datetime == int(resp.headers["X-Rate-Limit-Reset"])
             timedelta_to_wait == (rate_limit_reset_datetime - utc_now) + SafetyMargin
         IN  Outcome("RateLimitExceeded", <<>>, timedelta_to_wait)

\* Response.raise_for_status: HTTPError for 4xx and 5xx only
raise_for_status(status_code) == 400 <= status_code /\ status_code < 600

\* mutant: the quota header is read before the status is compared with 400
_process_api_response_quota_first(resp, utc_now) ==
    LET content == strip(decode_latin1(resp.content))
    IN  IF "X-Rate-Limit-Remaining" \notin DOMAIN resp.headers
        THEN Outcome("KeyError", <<>>, 0)
        ELSE IF ~IsIntLiteral(resp.headers["X-Rate-Limit-Remaining"])
        THEN Outcome("ValueError", <<>>, 0)
        ELSE IF /\ resp.status_code = 403
                /\ int(resp.headers["X-Rate-Limit-Remaining"]) <= 0
        THEN RateLimitExceeded(resp, utc_now)
        ELSE IF resp.status_code = 400
        THEN Outcome("NoStatusFound", <<>>, 0)
        ELSE IF raise_for_status(resp.status_code)
        THEN Outcome("HTTPError", <<>>, 0)
        ELSE Outcome("Ok", content, 0)

\* raises NoStatusFound, RateLimitExceeded, HTTPError (from
\* raise_for_status), or the KeyError / ValueError of a quota header that is
\* missing or not an integer; returns the decoded, stripped content
_process_api_response(resp, utc_now) ==
    LET content == strip(decode_latin1(resp.content))
    IN  IF resp.status_code = 400
        THEN Outcome("NoStatusFound", <<>>, 0)
        ELSE IF "X-Rate-Limit-Remaining" \notin DOMAIN resp.headers
        THEN Outcome("KeyError", <<>>, 0)
        ELSE IF ~IsIntLiteral(resp.headers["X-Rate-Limit-Remaining"])
        THEN Outcome("ValueError", <<>>, 0)
        ELSE IF /\ resp.status_code = 403
                /\ int(resp.headers["X-Rate-Limit-Remaining"]) <= 0
        THEN RateLimitExceeded(resp, utc_now)
        ELSE IF raise_for_status(resp.status_code)
        THEN Outcome("HTTPError", <<>>, 0)
        ELSE Outcome("Ok", content, 0)

(***************************************************************************)
(* The state machine.                                                       *)
(***************************************************************************)
\* the arguments of one call of pv_output_api_query
Frame(service, api_params, wait) ==
    [service |-> service, api_params |-> api_params,
     wait_if_rate_limit_exceeded |-> wait]
Top == stack[Len(stack)]

\* mutant: the handler is missing, every exception propagates
except_nothing(o) == FALSE

\* mutant: the handler catches the base class, so NoStatusFound as well
except_BadStatusCode(o) == o.kind \in {"RateLimitExceeded", "NoStatusFound"}

\* except RateLimitExceeded: the one exception the query loop handles
except_RateLimitExceeded(o) == o.kind = "RateLimitExceeded"

\* mutant: the recursive call passes its own waiting flag on
RecursiveCall_keeps_flag(f) == f

\* the arguments of the recursive call made from frame f after the sleep
RecursiveCall(f) == Frame(f.service, f.api_params, FALSE)

NoResult == [kind |-> "none", text |-> <<>>]

\* no caller: pv_output_api_query is called directly
NoDate == <<>>
NoTime == [date |-> <<0, 0, 0>>, secs |-> 0]
NoTable == [kind |-> "none", by |-> "none", index |-> <<>>, rows |-> <<>>]
NoCaller ==
    /\ date = NoDate
    /\ localtime = NoTime
    /\ table = NoTable
    /\ checked = "none"

\* one call, alone
OneThread ==
    /\ running = 1
    /\ parked = <<>>

\* the locals at the entry of pv_output_api_query
Entry ==
    /\ \E wait \in BOOLEAN :
         stack = <<Frame(QueryRequest.service, QueryRequest.api_params, wait)>>
    /\ retries = NoRetries
    /\ failures = NoFailures
    /\ attempts = 0
    /\ response = NoResponse
    /\ outcome = NoOutcome
    /\ result = NoResult
    /\ sent = <<>>
    /\ sleeps = <<>>
    /\ outcomes = <<>>

Init ==
    /\ pc = "call"
    /\ Entry
    /\ now = Now0
    /\ seen = <<>>
    /\ OneThread
    /\ NoCaller

\* mutant: the handler raises the exception it caught first, not the
\* one of the retried exchange
Raise_earlier(kind) ==
    /\ pc' = "raised"
    /\ result' = [kind |-> IF outcomes = <<>> THEN kind ELSE outcomes[1].kind,
                  text |-> <<>>]

\* an exception leaves pv_output_api_query and every frame below it
Raise(kind) ==
    /\ pc' = "raised"
    /\ result' = [kind |-> kind, text |-> <<>>]

\* _get_api_reponse up to session.get: the URL is built from the frame's
\* service and api_params and a new session, with new counters, is made
GetApiResponse ==
    /\ pc = "call"
    /\ pc' = "send"
    /\ sent' = Append(sent, [service |-> Top.service, api_params |-> Top.api_params])
    /\ retries' = _get_session_with_retry
    /\ failures' = NoFailures
    /\ attempts' = 0
    /\ seen' = IF seen = <<>> THEN seen ELSE <<0>>
    /\ UNCHANGED <<stack, now, response, outcome, result, sleeps, outcomes>>
    /\ UNCHANGED <<caller_vars, thread_vars>>

\* one failed attempt of session.get: retried (after the backoff) unless the
\* counters are exhausted, and then the requests exception `error` is raised
Retried(kind, error) ==
    /\ attempts' = attempts + 1
    /\ failures' = [failures EXCEPT ![kind] = @ + 1]
    /\ retries' = increment(retries, kind)
    /\ IF is_exhausted(increment(retries, kind))
       THEN Raise(error)
       ELSE UNCHANGED <<pc, result>>
    /\ UNCHANGED <<stack, now, response, outcome, sent, sleeps, outcomes>>
    /\ UNCHANGED <<caller_vars, thread_vars>>

\* an attempt that cannot connect
ConnectError ==
    /\ pc = "send"
    /\ Retried("connect", "ConnectionError")
    /\ seen' = IF seen = <<>> THEN seen ELSE <<0>>

\* an attempt whose connection breaks while the response is read
ReadError ==
    /\ pc = "send"
    /\ Retried("read", "ConnectionError")
    /\ seen' = IF seen = <<>> THEN seen ELSE <<0>>

\* an attempt that is answered: the response is retried if Retry.is_retry
\* says so, and otherwise session.get and _get_api_reponse return it and
\* the session is dropped
ReceiveResponse ==
    /\ pc = "send"
    /\ \E status_code \in Statuses, headers \in RetryAfterHeaders :
         /\ seen' = IF seen = <<>> THEN seen ELSE <<status_code>>
         /\ IF is_retry(retries, status_code, "Retry-After" \in DOMAIN headers)
            THEN Retried("status", "RetryError")
            ELSE /\ pc' = "process"
                 /\ attempts' = attempts + 1
                 /\ response' = [status_code |-> status_code, headers |-> headers,
                                 content |-> <<>>]
                 /\ retries' = NoRetries
                 /\ failures' = NoFailures
                 /\ UNCHANGED <<stack, now, outcome, result, sent, sleeps, outcomes>>
                 /\ UNCHANGED <<caller_vars, thread_vars>>

\* _process_api_response(response) and the try/except around it.  The quota
\* headers and the body, which nothing before this point reads, are drawn
\* here.
ProcessApiResponse ==
    /\ pc = "process"
    /\ \E quota \in QuotaHeaders, body \in Bodies :
         LET resp == [response EXCEPT !.headers = @ @@ quota, !.content = body]
             o == _process_api_response(resp, now)
         IN  /\ response' = resp
             /\ outcome' = o
             /\ outcomes' = Append(outcomes, o)
             /\ IF o.kind = "Ok"
                THEN /\ pc' = "returned"
                     /\ result' = [kind |-> "Ok", text |-> o.text]
                ELSE IF /\ except_RateLimitExceeded(o)
                        /\ Top.wait_if_rate_limit_exceeded
                THEN /\ pc' = "sleep"
                     /\ UNCHANGED result
                ELSE Raise(o.kind)
    /\ attempts' = 0
    /\ UNCHANGED <<stack, now, retries, failures, sent, sleeps, seen>>
    /\ UNCHANGED <<caller_vars, thread_vars>>

\* time.sleep(e.secs_to_wait), then the recursive call with waiting disabled
Sleep ==
    /\ pc = "sleep"
    /\ IF outcome.secs_to_wait < 0
       THEN /\ Raise("ValueError")
            /\ UNCHANGED <<stack, now, response, sleeps>>
       ELSE /\ now' = now + outcome.secs_to_wait
            /\ sleeps' = Append(sleeps, outcome.secs_to_wait)
            /\ stack' = Append(stack, RecursiveCall(Top))
            /\ response' = NoResponse
            /\ pc' = "call"
            /\ UNCHANGED result
    /\ UNCHANGED <<retries, failures, attempts, outcome, sent, outcomes, seen>>
    /\ UNCHANGED <<caller_vars, thread_vars>>

Next ==
    \/ GetApiResponse
    \/ ConnectError
    \/ ReadError
    \/ ReceiveResponse
    \/ ProcessApiResponse
    \/ Sleep

Spec == Init /\ [][Next]_vars

\* the same call with `seen` kept, on a network that always connects
ObservedInit ==
    /\ pc = "call"
    /\ Entry
    /\ now = Now0
    /\ seen = <<0>>
    /\ OneThread
    /\ NoCaller

ObservedNext ==
    \/ GetApiResponse
    \/ ReadError
    \/ ReceiveResponse
    \/ ProcessApiResponse
    \/ Sleep

ObservedSpec == ObservedInit /\ [][ObservedNext]_vars

(***************************************************************************)
(* get_pv_system_status up to its query: the date string is checked by     *)
(* _check_date, which parses it with datetime.strptime(date, "%Y%m%d") and *)
(* compares the result with datetime.now().  strptime matches the regex    *)
(* \d\d\d\d (1[0-2]|0[1-9]|[1-9]) (3[01]|[12]\d|0[1-9]|[1-9]| [1-9]) at    *)
(* the start of the string, the alternatives tried in that order, then     *)
(* requires the match to end where the string ends.                        *)
(***************************************************************************)
MaxMD == 5
Years == {<<"2", "0", "1", "9">>, <<"2", "0", "2", "0">>}
DateAlphabet == {"0", "1", "2", "3", " "}
DateStrings ==
    {y \o md : y \in Years,
               md \in UNION {[1..n -> DateAlphabet] : n \in 0..MaxMD}}
LocalTimes ==
    [date : {<<2019, 11, 1>>, <<2020, 2, 28>>}, secs : {0, 1}]

At(s, i) == IF i \in 1..Len(s) THEN s[i] ELSE ""
NonZero == DigitChars \ {"0"}

\* the lengths of the texts %m can match at i, in the order they are tried
MonthLens(s, i) ==
    (IF At(s, i) = "1" /\ At(s, i + 1) \in {"0", "1", "2"} THEN <<2>> ELSE <<>>)
    \o (IF At(s, i) = "0" /\ At(s, i + 1) \in NonZero THEN <<2>> ELSE <<>>)
    \o (IF At(s, i) \in NonZero THEN <<1>> ELSE <<>>)

\* the length of the text %d matches at i, 0 when it matches nothing
DayLen(s, i) ==
    IF At(s, i) = "3" /\ At(s, i + 1) \in {"0", "1"} THEN 2
    ELSE IF At(s, i) \in {"1", "2"} /\ At(s, i + 1) \in DigitChars THEN 2
    ELSE IF At(s, i) = "0" /\ At(s, i + 1) \in NonZero THEN 2
    ELSE IF At(s, i) \in NonZero THEN 1
    ELSE IF At(s, i) = " " /\ At(s, i + 1) \in NonZero THEN 2
    ELSE 0

NoMatch == [found |-> FALSE, Y |-> <<>>, m |-> <<>>, d |-> <<>>, end |-> 0]

\* format_regex.match(data_string): the first month alternative after which
\* a day can be matched
re_match(s) ==
    IF \A i \in 1..4 : At(s, i) \in DigitChars
    THEN LET ms == MonthLens(s, 5)
             ok == {k \in 1..Len(ms) : DayLen(s, 5 + ms[k]) > 0}
         IN  IF ok = {} THEN NoMatch
             ELSE LET m == ms[Min(ok)]
                      d == DayLen(s, 5 + m)
                  IN  [found |-> TRUE,
                       Y |-> SubSeq(s, 1, 4),
                       m |-> SubSeq(s, 5, 4 + m),
                       d |-> SubSeq(s, 5 + m, 4 + m + d),
                       end |-> 4 + m + d]
    ELSE NoMatch

IsLeap(y) == (y % 4 = 0) /\ ((y % 100 # 0) \/ (y % 400 = 0))
DaysIn(y, m) ==
    IF m = 2 THEN (IF IsLeap(y) THEN 29 ELSE 28)
    ELSE IF m \in {4, 6, 9, 11} THEN 30 ELSE 31

\* int() of a matched group: surrounding blanks do not count
GroupInt(t) == DigitsValue(SelectSeq(t, LAMBDA c : c \in DigitChars))

\* datetime.strptime(s, "%Y%m%d"): a datetime at midnight, or ValueError
strptime(s) ==
    LET found == re_match(s)
        y == GroupInt(found.Y)
        m == GroupInt(found.m)
        d == GroupInt(found.d)
    IN  IF ~found.found THEN [kind |-> "ValueError", date |-> <<0, 0, 0>>]
        ELSE IF found.end # Len(s) THEN [kind |-> "ValueError", date |-> <<0, 0, 0>>]
        ELSE IF y = 0 \/ d > DaysIn(y, m) THEN [kind |-> "ValueError", date |-> <<0, 0, 0>>]
        ELSE [kind |-> "datetime", date |-> <<y, m, d>>]

\* a < b for dates <<year, month, day>>
DateLess(a, b) ==
    \/ a[1] < b[1]
    \/ a[1] = b[1] /\ a[2] < b[2]
    \/ a[1] = b[1] /\ a[2] = b[2] /\ a[3] < b[3]

\* dt > datetime.now() for dt at midnight: now is at or after its own
\* midnight, so dt is later exactly when its date is later
InFuture(dt, t) == DateLess(t.date, dt.date)

\* _check_date: "ok", or the exception raised
_check_date(s, t) ==
    LET dt == strptime(s)
    IN  IF dt.kind = "ValueError" THEN "ValueError"
        ELSE IF InFuture(dt, t) THEN "ValueError"
        ELSE "ok"

\* get_pv_system_status with a date string and the clock as it reads it
DateInit ==
    /\ pc = "check_date"
    /\ Entry
    /\ now = Now0
    /\ seen = <<>>
    /\ OneThread
    /\ date \in DateStrings
    /\ localtime \in LocalTimes
    /\ table = NoTable
    /\ checked = "none"

\* date_to_pvoutput_str (a string is returned as it is) and _check_date
CheckDate ==
    /\ pc = "check_date"
    /\ IF _check_date(date, localtime) = "ok"
       THEN /\ pc' = "call"
            /\ UNCHANGED result
       ELSE Raise(_check_date(date, localtime))
    /\ UNCHANGED <<stack, now, retries, failures, attempts, response, outcome,
                   sent, sleeps, outcomes, seen, caller_vars, thread_vars>>

DateNext ==
    \/ CheckDate
    \/ GetApiResponse

DateSpec == DateInit /\ [][DateNext]_vars

(***************************************************************************)
(* Two calls of pv_output_api_query in two threads of one process.  Every  *)
(* variable of a call is a local of one of its frames, its session         *)
(* included; the module keeps no mutable state of its own.  The variables  *)
(* above hold the locals of the call that runs, `parked` those of the      *)
(* call that does not, and a context switch exchanges them.  The clock is  *)
(* the process's.                                                          *)
(***************************************************************************)
LocalsRec ==
    [pc |-> pc, stack |-> stack, retries |-> retries, failures |-> failures,
     attempts |-> attempts, response |-> response, outcome |-> outcome,
     result |-> result, sent |-> sent, sleeps |-> sleeps,
     outcomes |-> outcomes, seen |-> seen]

\* the locals of a call at its entry
EntryLocals(wait) ==
    [pc |-> "call",
     stack |-> <<Frame(QueryRequest.service, QueryRequest.api_params, wait)>>,
     retries |-> NoRetries, failures |-> NoFailures, attempts |-> 0,
     response |-> NoResponse, outcome |-> NoOutcome, result |-> NoResult,
     sent |-> <<>>, sleeps |-> <<>>, outcomes |-> <<>>, seen |-> <<>>]

\* mutant: the frames are one list for both calls
Switch_shares_stack ==
    /\ DOMAIN parked # {}
    /\ pc' = parked.pc
    /\ retries' = parked.retries
    /\ failures' = parked.failures
    /\ attempts' = parked.attempts
    /\ response' = parked.response
    /\ outcome' = parked.outcome
    /\ result' = parked.result
    /\ sent' = parked.sent
    /\ sleeps' = parked.sleeps
    /\ outcomes' = parked.outcomes
    /\ seen' = parked.seen
    /\ parked' = LocalsRec
    /\ running' = 3 - running
    /\ UNCHANGED <<stack, now, caller_vars>>

\* the interpreter passes control to the other thread
Switch ==
    /\ DOMAIN parked # {}
    /\ pc' = parked.pc
    /\ stack' = parked.stack
    /\ retries' = parked.retries
    /\ failures' = parked.failures
    /\ attempts' = parked.attempts
    /\ response' = parked.response
    /\ outcome' = parked.outcome
    /\ result' = parked.result
    /\ sent' = parked.sent
    /\ sleeps' = parked.sleeps
    /\ outcomes' = parked.outcomes
    /\ seen' = parked.seen
    /\ parked' = LocalsRec
    /\ running' = 3 - running
    /\ UNCHANGED <<now, caller_vars>>

\* the server of the two-call runs: it answers every attempt with 200 or
\* 403, 403 exactly when the quota is used up, sends no Retry-After, and
\* writes both quota headers as integers
Calm ==
    /\ response.status_code \in {0, 200, 403}
    /\ "Retry-After" \notin DOMAIN response.headers
    /\ response.content \in {<<>>, <<65>>}
    /\ pc # "process" =>
          \/ response = NoResponse
          \/ /\ DOMAIN response.headers = {"X-Rate-Limit-Remaining", "X-Rate-Limit-Reset"}
             /\ \A h \in DOMAIN response.headers : IsIntLiteral(response.headers[h])
             /\ response.status_code = 200 <=>
                   int(response.headers["X-Rate-Limit-Remaining"]) > 0
             /\ response.content = <<65>>

ConcInit ==
    /\ pc = "call"
    /\ Entry
    /\ now = Now0
    /\ seen = <<>>
    /\ running = 1
    /\ \E wait \in BOOLEAN : parked = EntryLocals(wait)
    /\ NoCaller

ConcNext ==
    \/ GetApiResponse
    \/ ReceiveResponse /\ Calm'
    \/ ProcessApiResponse /\ Calm'
    \/ Sleep
    \/ Switch

ConcSpec == ConcInit /\ [][ConcNext]_vars

(***************************************************************************)
(* check_pv_system_status.  A table is a DataFrame or something else; of   *)
(* a DataFrame the check reads the index, a sequence of datetimes of which *)
(* only the dates matter here.                                             *)
(***************************************************************************)
MaxIndex == 3
IndexDates ==
    {<<2019, 10, 31>>, <<2019, 11, 1>>, <<2019, 11, 2>>, <<2019, 11, 3>>,
     <<2019, 12, 31>>, <<2020, 1, 1>>}
RequestedDates ==
    {<<"2", "0", "1", "9", "1", "1", "0", "1">>,
     <<"2", "0", "1", "9", "1", "2", "3", "1">>,
     <<"2", "0", "1", "9", "1", "1", "2">>,
     <<"2", "0", "1", "9">>}
DataFrame(by, index, rows) ==
    [kind |-> "DataFrame", by |-> by, index |-> index, rows |-> rows]
StatusTables ==
    {DataFrame("datetime", index, [i \in 1..Len(index) |-> <<>>]) :
        index \in UNION {[1..n -> IndexDates] : n \in 0..MaxIndex}}
    \cup {[kind |-> "str", by |-> "none", index |-> <<>>, rows |-> <<>>]}

\* date + ONE_DAY
PlusOneDay(d) ==
    IF d[3] < DaysIn(d[1], d[2]) THEN <<d[1], d[2], d[3] + 1>>
    ELSE IF d[2] < 12 THEN <<d[1], d[2] + 1, 1>>
    ELSE <<d[1] + 1, 1, 1>>

\* a <= b <= c for dates
Between(a, b, c) == ~DateLess(b, a) /\ ~DateLess(c, b)

\* mutant: only the first index entry is looked at
check_first_only(t, s) ==
    IF t.kind # "DataFrame" THEN "ValueError"
    ELSE LET requested == strptime(s)
         IN  IF requested.kind = "ValueError" THEN "ValueError"
             ELSE IF Len(t.index) > 0
             THEN IF \E d \in {t.index[1]} :
                        ~Between(requested.date, d, PlusOneDay(requested.date))
                  THEN "ValueError"
                  ELSE "ok"
             ELSE "ok"

\* check_pv_system_status: "ok", or the exception raised
check_pv_system_status(t, s) ==
    IF t.kind # "DataFrame" THEN "ValueError"
    ELSE LET requested == strptime(s)
         IN  IF requested.kind = "ValueError" THEN "ValueError"
             ELSE IF Len(t.index) > 0
             THEN IF \E d \in {t.index[1], t.index[Len(t.index)]} :
                        ~Between(requested.date, d, PlusOneDay(requested.date))
                  THEN "ValueError"
                  ELSE "ok"
             ELSE "ok"

CheckInit ==
    /\ pc = "check_status"
    /\ Entry
    /\ now = Now0
    /\ seen = <<>>
    /\ OneThread
    /\ date \in RequestedDates
    /\ localtime = NoTime
    /\ table \in StatusTables
    /\ checked = "none"

CheckPvSystemStatus ==
    /\ pc = "check_status"
    /\ pc' = "checked"
    /\ checked' = check_pv_system_status(table, date)
    /\ UNCHANGED <<locals_but_pc, now, date, localtime, table, thread_vars>>

CheckNext == CheckPvSystemStatus

CheckSpec == CheckInit /\ [][CheckNext]_vars

(***************************************************************************)
(* Decoding: pd.read_csv on the text pv_output_api_query returned.  The    *)
(* text is a sequence of characters.  read_csv, given names and no header, *)
(* cuts the text at the line terminators, drops every blank line           *)
(* (skip_blank_lines is True by default), cuts each line at the commas,    *)
(* reads an empty field as NaN and fills the fields a short line lacks     *)
(* with NaN.  Lines with more fields than names, quoted fields and numbers *)
(* that are not integers are not among the payloads drawn.                 *)
(***************************************************************************)
MaxRecords == 3
NaN == <<"NaN">>

columns ==
    <<"energy_generation_watt_hours", "energy_efficiency_kWh_per_kW",
      "inst_power_watt", "average_power_watt", "normalised_output",
      "energy_consumption_watt_hours", "power_consumption_watts",
      "temperature_celsius", "voltage">>
StatusNames == <<"date", "time">> \o columns
SearchNames ==
    <<"system_name", "system_size_watts", "postcode", "orientation",
      "num_outputs", "last_output", "system_id", "panel", "inverter",
      "distance_km", "latitude", "longitude">>
SearchRequest == [service |-> "search", api_params |-> <<"q", "ll", "country">>]

\* records the server may write, a blank one among them
Day1 == <<"2", "0", "1", "9", "1", "1", "0", "1">>
Noon == <<"1", "2", ":", "0", "0">>
Later == <<"1", "2", ":", "0", "5">>
StatusRecordTexts ==
    {<<>>,
     <<"5", ",", "1", "0">>,
     <<"6", ",", "1", "1">>,
     Day1 \o <<",">> \o Later \o <<",", "5">>,
     Day1 \o <<",">> \o Noon \o <<",", "5">>,
     Day1 \o <<",">> \o Noon \o <<",", "6">>,
     Day1 \o <<",">> \o Noon \o <<",", "x">>}
SearchRecordTexts ==
    {<<>>,
     <<"a">>,
     <<"a", ",", ",", ",", ",", ",", ",", "7">>,
     <<"b", ",", ",", ",", ",", ",", ",", "7">>,
     <<"c", ",", ",", ",", ",", ",", ",", "3", ",", "p">>}

RECURSIVE Join(_, _)
Join(rs, sep) ==
    IF rs = <<>> THEN <<>>
    ELSE IF Len(rs) = 1 THEN rs[1]
    ELSE rs[1] \o <<sep>> \o Join(Tail(rs), sep)

\* the texts of up to MaxRecords records joined by sep
Payloads(texts, sep) ==
    {Join(rs, sep) : rs \in UNION {[1..n -> texts] : n \in 0..MaxRecords}}

\* the body is stripped before it is returned: no line break at either end
StatusPayloads == Payloads(StatusRecordTexts, ";")
SearchPayloads ==
    {t \in Payloads(SearchRecordTexts, "\n") :
        t = <<>> \/ (t[1] # "\n" /\ t[Len(t)] # "\n")}

\* the texts between the separators of s
RECURSIVE Split(_, _)
Split(s, seps) ==
    IF \A i \in 1..Len(s) : s[i] \notin seps THEN <<s>>
    ELSE LET i == CHOOSE i \in 1..Len(s) :
                     s[i] \in seps /\ \A j \in 1..(i - 1) : s[j] \notin seps
         IN  <<SubSeq(s, 1, i - 1)>> \o Split(SubSeq(s, i + 1, Len(s)), seps)

\* mutant: only a blank line at the end is dropped
skip_trailing_blank_line(lines) ==
    IF lines # <<>> /\ lines[Len(lines)] = <<>>
    THEN SubSeq(lines, 1, Len(lines) - 1)
    ELSE lines

\* skip_blank_lines=True
skip_blank_lines(lines) == SelectSeq(lines, LAMBDA l : l # <<>>)

\* the fields of one line under n names
Fields(line, n) ==
    LET fs == Split(line, {","})
    IN  [i \in 1..n |-> IF i <= Len(fs) /\ fs[i] # <<>> THEN fs[i] ELSE NaN]

\* pd.read_csv(StringIO(text), names=names, lineterminator=...): the rows
read_csv(text, lineterminators, names) ==
    LET lines == skip_blank_lines(Split(text, lineterminators))
    IN  [i \in 1..Len(lines) |-> Fields(lines[i], Len(names))]

\* dtype np.float64: the number a field is read as, or ValueError
IsFloat(f) == f = NaN \/ IsIntLiteral(f)
float64(f) == IF f = NaN THEN NaN ELSE <<int(f)>>

\* the place of a date or time text in time
Chrono(t) == DigitsValue(SelectSeq(t, LAMBDA c : c \in DigitChars))
FieldLess(x, y) == x # NaN /\ (y = NaN \/ Chrono(x) < Chrono(y))
KeyLess(a, b) ==
    \/ FieldLess(a[1], b[1])
    \/ a[1] = b[1] /\ FieldLess(a[2], b[2])

\* .sort_index(): rows in the order of their keys, NaN last
RECURSIVE Insert(_, _)
Insert(sorted, r) ==
    IF sorted = <<>> THEN <<r>>
    ELSE IF KeyLess(r.key, Head(sorted).key) THEN <<r>> \o sorted
    ELSE <<Head(sorted)>> \o Insert(Tail(sorted), r)
RECURSIVE sort_index(_)
sort_index(rows) ==
    IF rows = <<>> THEN <<>>
    ELSE Insert(sort_index(SubSeq(rows, 1, Len(rows) - 1)), rows[Len(rows)])

\* mutant: a row replaces the row that has its key
index_last_wins(rows) ==
    SelectSeq([i \in 1..Len(rows) |->
                  IF \E j \in (i + 1)..Len(rows) : rows[j].key = rows[i].key
                  THEN [key |-> <<>>, values |-> <<>>] ELSE rows[i]],
              LAMBDA r : r.key # <<>>)

\* index_col: every row is kept under its key
set_index(rows) == rows

\* the rows of get_pv_system_status: date and time make the key, the other
\* columns are numbers
StatusRows(text) ==
    LET rows == read_csv(text, {";"}, StatusNames)
    IN  [i \in 1..Len(rows) |->
            [key |-> <<rows[i][1], rows[i][2]>>,
             values |-> [c \in 1..Len(columns) |-> rows[i][c + 2]]]]

\* the rows of pv_system_search: system_id is the key
SearchRows(text) ==
    LET rows == read_csv(text, {"\n", "\r"}, SearchNames)
        id == CHOOSE c \in 1..Len(SearchNames) : SearchNames[c] = "system_id"
    IN  [i \in 1..Len(rows) |->
            [key |-> rows[i][id],
             values |-> [c \in 1..(Len(SearchNames) - 1) |->
                            rows[i][IF c < id THEN c ELSE c + 1]]]]

Table(by, rows) ==
    DataFrame(by, [i \in 1..Len(rows) |-> rows[i].key],
                  [i \in 1..Len(rows) |-> rows[i].values])

\* a query has returned its text
DecodeInit ==
    /\ pc = "returned"
    /\ \E wait \in BOOLEAN :
         \/ /\ stack = <<Frame(QueryRequest.service, QueryRequest.api_params, wait)>>
            /\ \E text \in StatusPayloads : result = [kind |-> "Ok", text |-> text]
         \/ /\ stack = <<Frame(SearchRequest.service, SearchRequest.api_params, wait)>>
            /\ \E text \in SearchPayloads : result = [kind |-> "Ok", text |-> text]
    /\ retries = NoRetries
    /\ failures = NoFailures
    /\ attempts = 0
    /\ response = NoResponse
    /\ outcome = NoOutcome
    /\ sent = <<>>
    /\ sleeps = <<>>
    /\ outcomes = <<>>
    /\ now = Now0
    /\ seen = <<>>
    /\ OneThread
    /\ NoCaller

\* get_pv_system_status after its query
DecodeStatus ==
    /\ pc = "returned"
    /\ Top.service = "getstatus"
    /\ LET rows == StatusRows(result.text)
       IN  IF \A i \in 1..Len(rows) :
                 \A c \in 1..Len(columns) : IsFloat(rows[i].values[c])
           THEN /\ pc' = "decoded"
                /\ table' = Table("datetime",
                      sort_index(set_index(
                         [i \in 1..Len(rows) |->
                            [rows[i] EXCEPT !.values =
                               [c \in 1..Len(columns) |-> float64(@[c])]]])))
                /\ UNCHANGED result
           ELSE /\ Raise("ValueError")
                /\ UNCHANGED table
    /\ UNCHANGED <<locals_but_pc_result, now, date, localtime, checked, thread_vars>>

\* pv_system_search after its query
DecodeSearch ==
    /\ pc = "returned"
    /\ Top.service = "search"
    /\ pc' = "decoded"
    /\ table' = Table("system_id", set_index(SearchRows(result.text)))
    /\ UNCHANGED <<locals_but_pc_result, result, now, date, localtime, checked,
                   thread_vars>>

DecodeNext ==
    \/ DecodeStatus
    \/ DecodeSearch

DecodeSpec == DecodeInit /\ [][DecodeNext]_vars

TypeOK ==
    /\ pc \in {"call", "send", "process", "sleep", "returned", "raised",
              "check_date", "decoded", "check_status", "checked"}
    /\ Len(stack) \in 1..2
    /\ attempts \in 0..(MaxTotal + 1)

(***************************************************************************)
(* Properties.                                                              *)
(***************************************************************************)
\* the call is over
Done == pc \in {"returned", "raised"}

\* `response` has just been classified: `outcome` is the classifier's answer
\* for `response` at clock reading `now`
Classified == pc \in {"sleep", "returned", "raised"} /\ response # NoResponse

\* the integer a header carries, for well-formed headers
HeaderInt(resp, name) == int(resp.headers[name])
HasInt(resp, name) ==
    name \in DOMAIN resp.headers /\ IsIntLiteral(resp.headers[name])

\* status 403 with quota-remaining <= 0
QuotaExhausted(resp) ==
    /\ resp.status_code = 403
    /\ HasInt(resp, "X-Rate-Limit-Remaining")
    /\ HeaderInt(resp, "X-Rate-Limit-Remaining") <= 0

\* C1: one top-level call performs at most one quota sleep and at most two
\* exchanges; when the retried exchange is classified quota-exceeded again,
\* the call is over, having raised RateLimitExceeded after exactly one sleep
\* and two exchanges.
C1_AtMostOneSleepTwoExchanges ==
    /\ Len(sleeps) <= 1
    /\ Len(sent) <= 2
    /\ Len(outcomes) <= Len(sent)
    /\ (Len(outcomes) = 2 /\ outcomes[2].kind = "RateLimitExceeded") =>
          /\ pc = "raised"
          /\ result.kind = "RateLimitExceeded"
          /\ Len(sleeps) = 1
          /\ Len(sent) = 2

C1_Witness ==
    /\ stack[1].wait_if_rate_limit_exceeded
    /\ Len(outcomes) = 2
    /\ outcomes[1].kind = "RateLimitExceeded"
    /\ outcomes[2].kind = "RateLimitExceeded"
    /\ pc = "raised"

\* C2: for a response with status 403, quota-remaining <= 0 and quota-reset T
\* the classifier's wait is max(0, T + 180 - now), so never negative.
C2_WaitFlooredAtZero ==
    (Classified /\ QuotaExhausted(response)
        /\ HasInt(response, "X-Rate-Limit-Reset")) =>
       /\ outcome.kind = "RateLimitExceeded"
       /\ outcome.secs_to_wait =
            Max({0, (HeaderInt(response, "X-Rate-Limit-Reset") + SafetyMargin) - now})
       /\ outcome.secs_to_wait >= 0

\* C3: a waiting-enabled call whose first exchange is classified
\* quota-exceeded sleeps exactly once, for the classifier's wait, between the
\* first and the second exchange, and makes exactly one more exchange with
\* the same service and parameters and with waiting disabled.
C3_SleepOnceThenRetryOnce ==
    (Done /\ stack[1].wait_if_rate_limit_exceeded
          /\ Len(outcomes) >= 1 /\ outcomes[1].kind = "RateLimitExceeded") =>
       /\ sleeps = <<outcomes[1].secs_to_wait>>
       /\ Len(sent) = 2
       /\ sent[2] = sent[1]
       /\ Len(stack) = 2
       /\ ~stack[2].wait_if_rate_limit_exceeded

\* C4: RateLimitExceeded escapes the call in exactly two situations: waiting
\* disabled and the first exchange quota-exceeded (one exchange, no sleep);
\* or waiting enabled, one sleep, two exchanges, both quota-exceeded.
C4_QuotaErrorEscapes ==
    LET immediately ==
            /\ ~stack[1].wait_if_rate_limit_exceeded
            /\ Len(outcomes) = 1 /\ outcomes[1].kind = "RateLimitExceeded"
            /\ Len(sent) = 1 /\ sleeps = <<>>
        after_retry ==
            /\ stack[1].wait_if_rate_limit_exceeded
            /\ Len(outcomes) = 2
            /\ outcomes[1].kind = "RateLimitExceeded"
            /\ outcomes[2].kind = "RateLimitExceeded"
            /\ Len(sent) = 2 /\ Len(sleeps) = 1
    IN  (pc = "raised" /\ result.kind = "RateLimitExceeded")
            <=> (immediately \/ after_retry)

C4_Witness ==
    /\ pc = "raised"
    /\ result.kind = "RateLimitExceeded"
    /\ ~stack[1].wait_if_rate_limit_exceeded
    /\ Len(sent) = 1

\* C5: status 400 yields NoStatusFound whatever the quota headers are, and
\* never a quota sleep.
C5_Status400IsNoStatusFound ==
    (Classified /\ response.status_code = 400) =>
       /\ outcome.kind = "NoStatusFound"
       /\ pc = "raised"
       /\ result.kind = "NoStatusFound"

C5_Witness ==
    /\ Classified
    /\ response.status_code = 400
    /\ QuotaExhausted([response EXCEPT !.status_code = 403])
    /\ "X-Rate-Limit-Reset" \notin DOMAIN response.headers
    /\ stack[1].wait_if_rate_limit_exceeded

\* C6: a response that is neither 400 nor quota-exhausted is an HTTP error
\* when its status is outside 200..299 and Ok only when it is inside.  Stated
\* for responses whose quota-remaining header is a well-formed integer.
C6_Non2xxIsHttpError ==
    (Classified /\ response.status_code # 400 /\ ~QuotaExhausted(response)
        /\ HasInt(response, "X-Rate-Limit-Remaining")) =>
       /\ response.status_code \notin 200..299 => outcome.kind = "HTTPError"
       /\ outcome.kind = "Ok" => response.status_code \in 200..299

\* C7: the classifier answers every response with exactly one of Ok,
\* RateLimitExceeded, NoStatusFound, HTTPError (the decoding error aside).
C7_ClassifierTotal ==
    Classified =>
        outcome.kind \in {"Ok", "RateLimitExceeded", "NoStatusFound", "HTTPError"}

\* C8: when the first exchange is NoStatusFound or an HTTP error, or the
\* transport fails, the call raises after one exchange and no sleep; a quota
\* sleep happens only for a quota-exceeded outcome with waiting enabled.
C8_RaiseImmediately ==
    /\ (Len(outcomes) >= 1 /\ outcomes[1].kind \in {"NoStatusFound", "HTTPError"}) =>
          /\ pc = "raised"
          /\ result.kind = outcomes[1].kind
          /\ Len(sent) = 1
          /\ sleeps = <<>>
    /\ (outcomes = <<>> /\ Done) =>
          /\ pc = "raised"
          /\ result.kind \in NetworkErrors
          /\ Len(sent) = 1
          /\ sleeps = <<>>
    /\ pc = "sleep" =>
          /\ outcome.kind = "RateLimitExceeded"
          /\ Top.wait_if_rate_limit_exceeded
    /\ sleeps # <<>> =>
          /\ outcomes[1].kind = "RateLimitExceeded"
          /\ stack[1].wait_if_rate_limit_exceeded
          /\ sleeps[1] = outcomes[1].secs_to_wait

C8_Witness ==
    /\ pc = "raised"
    /\ Len(outcomes) = 1
    /\ outcomes[1].kind = "HTTPError"
    /\ stack[1].wait_if_rate_limit_exceeded
    /\ QuotaExhausted([response EXCEPT !.status_code = 403])

\* the failures of the current send, all kinds together
TotalFailures == failures.connect + failures.read + failures.status

\* every kind of failure is below its retry ceiling
BelowCeiling ==
    /\ failures.status < MaxStatus
    /\ failures.read < MaxRead
    /\ failures.connect < MaxConnect
    /\ TotalFailures < MaxTotal

C10_StopsAtCeiling ==
    /\ attempts <= MaxTotal + 1
    /\ failures.status <= MaxStatus + 1
    /\ failures.read <= MaxRead + 1
    /\ failures.connect <= MaxConnect + 1
    /\ (\/ failures.status > MaxStatus
        \/ failures.read > MaxRead
        \/ failures.connect > MaxConnect) =>
          /\ pc = "raised"
          /\ result.kind \in NetworkErrors
          /\ attempts = TotalFailures
    /\ pc = "raised" => ~ENABLED Next

C10_Witness ==
    /\ pc = "raised"
    /\ failures.status = MaxStatus + 1
    /\ failures.read = MaxRead
    /\ attempts = MaxStatus + MaxRead + 1

\* C11: a response whose status is not 500, 502, 503 or 504 is returned as
\* it is by the attempt that received it, whatever its headers: a send goes
\* on after a response only if that response's status is forcelisted.
C11_OnlyForcelistedRetried ==
    /\ (pc = "send" /\ seen # <<0>>) => seen[1] \in status_forcelist
    /\ pc = "process" => response.status_code = seen[1]

\* t is s without its leading and trailing whitespace
IsStripOf(t, s) ==
    \E i, j \in 0..Len(s) :
        /\ i + Len(t) + j = Len(s)
        /\ t = SubSeq(s, i + 1, i + Len(t))
        /\ \A k \in 1..i : s[k] \in Whitespace
        /\ \A k \in (Len(s) - j + 1)..Len(s) : s[k] \in Whitespace
        /\ t # <<>> => (t[1] \notin Whitespace /\ t[Len(t)] \notin Whitespace)

\* C16: the call returns a string exactly when its last exchange was
\* classified Ok, and the string is that exchange's body without the
\* surrounding whitespace; an error of the retried exchange is the error
\* raised, not the earlier quota error.
C16_ResultOfLastExchange ==
    Done =>
       /\ pc = "returned" <=>
             (Len(outcomes) = Len(sent) /\ outcomes[Len(outcomes)].kind = "Ok")
       /\ pc = "returned" =>
             /\ result.kind = "Ok"
             /\ Classified
             /\ IsStripOf(result.text, response.content)
       /\ (Len(outcomes) = 2 /\ outcomes[2].kind \in {"NoStatusFound", "HTTPError"}) =>
             /\ pc = "raised"
             /\ result.kind = outcomes[2].kind

C16_Witness ==
    /\ pc = "returned"
    /\ Len(outcomes) = 2
    /\ outcomes[1].kind = "RateLimitExceeded"
    /\ response.content = <<32, 65, 160>>
    /\ result.text = <<65>>

\* the steps one exchange can take: entry, MaxTotal + 1 attempts,
\* classification, sleep
ExchangeSteps == MaxTotal + 4

\* an upper bound on the steps the call can still take
Measure ==
    (IF ~Done /\ Top.wait_if_rate_limit_exceeded THEN ExchangeSteps ELSE 0)
    + CASE pc = "call" -> ExchangeSteps
        [] pc = "send" -> ((MaxTotal + 1) - attempts) + 2
        [] pc = "process" -> 2
        [] pc = "sleep" -> 1
        [] OTHER -> 0

\* C17: every call terminates: the recursion is at most two deep, the inner
\* call has waiting disabled, a call that is not over can take a step, and
\* every step lowers a bound on the steps that remain.
C17_Terminates ==
    /\ [](/\ Len(stack) <= 2
          /\ Len(stack) = 2 =>
                /\ stack[1].wait_if_rate_limit_exceeded
                /\ ~stack[2].wait_if_rate_limit_exceeded
          /\ Measure >= 0
          /\ Done \/ ENABLED Next)
    /\ [][Measure' < Measure]_vars

C17_Witness ==
    /\ pc = "returned"
    /\ Len(stack) = 2
    /\ Len(sleeps) = 1
    /\ Len(sent) = 2

\* C20: retry budgets are per exchange: in every send the counters are the
\* full budgets less the failures of that send alone, so no send makes more
\* than MaxTotal + 1 attempts and, with at most two exchanges, no call more
\* than twice that.
C20_BudgetPerExchange ==
    /\ Len(sent) <= 2
    /\ attempts <= MaxTotal + 1
    /\ pc = "send" =>
          /\ retries.connect = MaxConnect - failures.connect
          /\ retries.read = MaxRead - failures.read
          /\ retries.status = MaxStatus - failures.status
          /\ retries.total = MaxTotal - TotalFailures
          /\ attempts = TotalFailures

C20_Witness ==
    /\ pc = "send"
    /\ Len(sent) = 2
    /\ failures.status = MaxStatus
    /\ failures.read = MaxRead
    /\ retries.status = 0

\* s is a date written YYYYMMDD: eight digits, a month and a day of it
IsYYYYMMDD(s) ==
    /\ Len(s) = 8
    /\ \A i \in 1..8 : s[i] \in DigitChars
    /\ DigitsValue(SubSeq(s, 1, 4)) >= 1
    /\ DigitsValue(SubSeq(s, 5, 6)) \in 1..12
    /\ DigitsValue(SubSeq(s, 7, 8)) \in
          1..DaysIn(DigitsValue(SubSeq(s, 1, 4)), DigitsValue(SubSeq(s, 5, 6)))
Denoted(s) ==
    <<DigitsValue(SubSeq(s, 1, 4)), DigitsValue(SubSeq(s, 5, 6)),
      DigitsValue(SubSeq(s, 7, 8))>>
Rejected ==
    /\ pc = "raised"
    /\ result.kind = "ValueError"
    /\ sent = <<>>

\* C12: once the date is checked, a YYYYMMDD date later than the current
\* time is rejected with ValueError, a string that is not YYYYMMDD is
\* rejected with ValueError, and a rejected date means no request was sent.
C12_DateValidatedBeforeQuery ==
    (pc # "check_date" /\ date # NoDate) =>
       /\ (IsYYYYMMDD(date) /\ DateLess(localtime.date, Denoted(date))) => Rejected
       /\ ~IsYYYYMMDD(date) => Rejected
       /\ pc = "raised" => sent = <<>>

\* the locals of call c, whether it runs or not
LocalsOf(c) == IF c = running THEN LocalsRec ELSE parked

\* C18: two concurrent calls share no query state: a step of one call
\* leaves every local of the other as it was, a context switch changes no
\* local of either, and each call sleeps at most once and sends at most
\* two exchanges whatever the other does.
C18_CallsIndependent ==
    /\ [](\A c \in {1, 2} :
             /\ Len(LocalsOf(c).sleeps) <= 1
             /\ Len(LocalsOf(c).sent) <= 2
             /\ Len(LocalsOf(c).stack) = Len(LocalsOf(c).sleeps) + 1)
    /\ [][\A c \in {1, 2} :
             (c # running \/ running' # running) => LocalsOf(c)' = LocalsOf(c)]_vars

C18_Witness ==
    /\ DOMAIN parked # {}
    /\ pc = "returned"
    /\ parked.pc = "returned"
    /\ Len(sleeps) = 1
    /\ Len(parked.sleeps) = 1

\* the dates of the closed range [requested, requested + 1 day]
InRange(d) ==
    LET requested == strptime(date).date
    IN  d = requested \/ d = PlusOneDay(requested)
BoundOutside ==
    /\ Len(table.index) > 0
    /\ ~InRange(table.index[1]) \/ ~InRange(table.index[Len(table.index)])

\* C19 as stated: every empty table is accepted; a non-empty table is
\* refused with ValueError exactly when its first or last index date is
\* outside the range; a non-table is refused with ValueError.
C19_AcceptsEveryEmptyTable ==
    pc = "checked" =>
       /\ (table.kind = "DataFrame" /\ table.index = <<>>) => checked = "ok"
       /\ (table.kind = "DataFrame" /\ table.index # <<>>
             /\ strptime(date).kind = "datetime") =>
             (checked = "ValueError" <=> BoundOutside)
       /\ table.kind # "DataFrame" => checked = "ValueError"

\* C19: a non-table is refused with ValueError; a table checked against a
\* date string that strptime does not parse is refused with ValueError,
\* empty or not; against a date that parses, an empty table is accepted and
\* a non-empty one is refused with ValueError exactly when its first or its
\* last index date is outside the range, the entries between them unread.
C19_RangeCheckOnBounds ==
    pc = "checked" =>
       /\ table.kind # "DataFrame" => checked = "ValueError"
       /\ (table.kind = "DataFrame" /\ strptime(date).kind = "ValueError") =>
             checked = "ValueError"
       /\ (table.kind = "DataFrame" /\ strptime(date).kind = "datetime") =>
             /\ checked \in {"ok", "ValueError"}
             /\ checked = "ValueError" <=> BoundOutside

C19_Witness ==
    /\ pc = "checked"
    /\ table.kind = "DataFrame"
    /\ Len(table.index) = 3
    /\ strptime(date).kind = "datetime"
    /\ InRange(table.index[1])
    /\ ~InRange(table.index[2])
    /\ InRange(table.index[3])
    /\ checked = "ok"

\* the records of the returned text: what the record delimiters separate
Records ==
    Split(result.text,
          IF Top.service = "getstatus" THEN {";"} ELSE {"\n", "\r"})
Schema == IF Top.service = "getstatus" THEN StatusNames ELSE SearchNames
FieldCount(record) == Len(Split(record, {","}))
Decoded == pc = "decoded"

\* C13: a payload with a record whose field count is not the schema length
\* is not decoded: no table is returned for it.
C13_MalformedRecordRejected ==
    (\E i \in 1..Len(Records) :
        Records[i] # <<>> /\ FieldCount(Records[i]) # Len(Schema))
    => ~Decoded

KeyOf(record) ==
    LET fs == Fields(record, Len(Schema))
    IN  IF Top.service = "getstatus" THEN <<fs[1], fs[2]>> ELSE fs[7]
KeysOfRecords ==
    {KeyOf(Records[i]) : i \in {j \in 1..Len(Records) : Records[j] # <<>>}}

\* C15 as stated: the table holds exactly one row for each key of the
\* payload.
C15_OneRowPerKey ==
    Decoded =>
       \A k \in KeysOfRecords :
          Cardinality({i \in 1..Len(table.index) : table.index[i] = k}) = 1

\* C15: decoding does not fail on a repeated key (a payload whose fields
\* are numbers or empty is always decoded), and the table holds as many rows
\* for a key as the payload has records with it, each with the values of
\* its record, in the order of the payload.
C15_RowPerRecordOfKey ==
    /\ [][(pc = "returned" /\ \A i \in 1..Len(result.text) : result.text[i] # "x")
             => pc' = "decoded"]_vars
    /\ [](Decoded =>
          \A k \in KeysOfRecords :
             LET recs == SelectSeq(Records, LAMBDA r : r # <<>> /\ KeyOf(r) = k)
                 at == {i \in 1..Len(table.index) : table.index[i] = k}
             IN  /\ Cardinality(at) = Len(recs)
                 /\ \A i \in at :
                       LET nth == Cardinality({j \in at : j <= i})
                           fs == Fields(recs[nth], Len(Schema))
                       IN  IF Top.service = "getstatus"
                           THEN table.rows[i] =
                                   [c \in 1..Len(columns) |-> float64(fs[c + 2])]
                           ELSE table.rows[i] =
                                   SubSeq(fs, 1, 6) \o SubSeq(fs, 8, Len(fs)))

C15_Witness ==
    /\ Decoded
    /\ Len(table.index) = 2
    /\ table.index[1] = table.index[2]
    /\ table.index[1] = <<Day1, Noon>>
    /\ table.rows[1] # table.rows[2]
====
